---------------------------- MODULE Spec2Model ----------------------------
(***************************************************************************)
(* Model of the map-combine-reduce pipeline of FlightAnalyzer              *)
(* ("src/code/Task A - main.py"): map_row, _process_chunk, map_phase,      *)
(* reduce_phase, find_top and the part of run that drives them.            *)
(*                                                                         *)
(* A string is a sequence of one-character strings, a CSV row a sequence   *)
(* of strings.  A dict that the code iterates (a partial count, counts)    *)
(* is a sequence of <<key, value>> pairs in insertion order; flights and   *)
(* routes, which are only indexed, are functions from the keys present.   *)
(* The main thread and the pool's chunk tasks interleave at the grain of   *)
(* the operations CPython runs atomically under its global interpreter     *)
(* lock: one defaultdict subscript (the insertion of a missing key          *)
(* included) followed by one list.append on the list it gave is one step,  *)
(* the two appends of lines 79 and 80 are two steps, and a thread may be   *)
(* switched out between any two steps.  What touches only a task's locals  *)
(* (the length test, map_row, partial, the loop's end and the return) is   *)
(* folded into the step before it.                                         *)
(***************************************************************************)
EXTENDS Integers, Sequences, FiniteSets, TLC

\* ---------------------------------------------------------------- bounds

\* longest record list read from the file (header excluded)
MaxRows == 3
\* largest max_workers passed to map_phase
MaxWorkers == 2
\* the same two bounds where only the partitioning is run
MaxPartRows == 6
MaxPartWorkers == 4
\* largest count of one passenger where only reduce_phase and find_top are run
MaxCount == 3
\* longest record list where a single chunk task is run
MaxChunkRows == 8
\* longest record list, and number of pipeline executions on one analyzer,
\* where the pipeline is executed again
MaxRerunRows == 2
MaxRuns == 2
\* longest record list where every record has a flight number of its own
MaxOrderRows == 4

\* ------------------------------------------------------------- constants

\* _process_chunk skips a row with fewer fields than this
MIN_FIELDS == 4

\* ---------------------------------------------------------------- inputs

WS == {" ", "\t"}

FL1 == <<"F", "1">>
FL2 == <<"F", "2">>
FL3 == <<"F", "3">>
FL4 == <<"F", "4">>
P1  == <<"P", "1">>
P1pad == <<" ", "P", "1", " ">>
P2  == <<"P", "2">>
JFK == <<"J">>
LAX == <<"L">>
ORD == <<"O", "\t">>

\* the rows a file may hold: well formed, padded, and short (malformed)
RowSet ==
    { <<FL1, P1, JFK, LAX>>,
      <<FL2, P1pad, LAX, JFK>>,
      <<FL3, P2, JFK, ORD>>,
      <<FL4, P2, ORD>> }

RECURSIVE SeqsUpTo(_, _)
SeqsUpTo(S, n) ==
    IF n = 0 THEN { <<>> }
    ELSE LET shorter == SeqsUpTo(S, n - 1)
         IN  shorter \cup { Append(s, x) : s \in { t \in shorter : Len(t) = n - 1 }, x \in S }

\* ------------------------------------------------------------ str.strip

RECURSIVE lstrip(_)
lstrip(s) ==
    IF s = <<>> THEN <<>>
    ELSE IF Head(s) \in WS THEN lstrip(Tail(s)) ELSE s

RECURSIVE rstrip(_)
rstrip(s) ==
    IF s = <<>> THEN <<>>
    ELSE IF s[Len(s)] \in WS THEN rstrip(SubSeq(s, 1, Len(s) - 1)) ELSE s

strip(s) == rstrip(lstrip(s))

\* ------------------------------------------------------- dict primitives

DictKeys(d) == { d[i][1] : i \in DOMAIN d }

DictGet(d, k) == d[CHOOSE i \in DOMAIN d : d[i][1] = k][2]

\* d[k] += n on a defaultdict(int): a missing key is inserted last with 0 + n
DictAdd(d, k, n) ==
    IF k \in DictKeys(d)
    THEN [i \in DOMAIN d |-> IF d[i][1] = k THEN <<k, d[i][2] + n>> ELSE d[i]]
    ELSE Append(d, <<k, n>>)

\* a lost update: the key's list is replaced by a fresh one holding only x
ListAppendLost(d, k, x) ==
    [j \in DOMAIN d \cup {k} |-> IF j = k THEN <<x>> ELSE d[j]]

\* d[k].insert(0, x): the newest entry is put first
ListPrepend(d, k, x) ==
    IF k \in DOMAIN d
    THEN [d EXCEPT ![k] = <<x>> \o @]
    ELSE [j \in DOMAIN d \cup {k} |-> IF j = k THEN <<x>> ELSE d[j]]

\* d[k].append(x) on a defaultdict(list), d a function from its keys
ListAppend(d, k, x) ==
    IF k \in DOMAIN d
    THEN [d EXCEPT ![k] = Append(@, x)]
    ELSE [j \in DOMAIN d \cup {k} |-> IF j = k THEN <<x>> ELSE d[j]]

\* -------------------------------------------------------------- map_row

\* row[1], row[0], row[2], row[3] of the code are row[2], row[1], row[3],
\* row[4] here; an index out of range raises, is caught, and gives None
map_row(row) ==
    IF Len(row) < 4
    THEN [ok |-> FALSE, pid |-> <<>>, one |-> 0, flight_no |-> <<>>, route |-> <<>>]
    ELSE [ok |-> TRUE,
          pid |-> strip(row[2]),
          one |-> 1,
          flight_no |-> strip(row[1]),
          route |-> <<strip(row[3]), strip(row[4])>>]

\* does the loop body reach the combiner step for this row (lines 73-76)
Accepted(row) == Len(row) >= MIN_FIELDS /\ map_row(row).ok

\* partial[pid] = one: a repeated passenger is set to one, not added to
CombineRowAssign(partial, row) ==
    IF Len(row) >= 4
    THEN IF map_row(row).pid \in DictKeys(partial)
         THEN [i \in DOMAIN partial |->
                 IF partial[i][1] = map_row(row).pid
                 THEN <<partial[i][1], map_row(row).one>> ELSE partial[i]]
         ELSE Append(partial, <<map_row(row).pid, map_row(row).one>>)
    ELSE partial

\* the loop body's effect on partial: partial[pid] += one for an accepted row
CombineRow(partial, row) ==
    IF Accepted(row)
    THEN DictAdd(partial, map_row(row).pid, map_row(row).one)
    ELSE partial

\* the partial _process_chunk returns for a chunk, the loop run to its end
RECURSIVE CombineFrom(_, _)
CombineFrom(partial, chunk) ==
    IF chunk = <<>> THEN partial
    ELSE CombineFrom(CombineRow(partial, Head(chunk)), Tail(chunk))

ProcessChunkPartial(chunk) == CombineFrom(<<>>, chunk)

\* ------------------------------------------------- partitioning (map_phase)

Max2(a, b) == IF a >= b THEN a ELSE b
Min2(a, b) == IF a <= b THEN a ELSE b

\* fewer rows than workers: one chunk takes them all
ChunkSizeWhole(rs, w) ==
    IF Len(rs) < w THEN Max2(1, Len(rs)) ELSE Len(rs) \div w

\* size = max(1, len(rows) // max_workers)
ChunkSize(rs, w) == Max2(1, Len(rs) \div w)

\* list(range(0, n, step))
RECURSIVE Range(_, _, _)
Range(from, n, step) ==
    IF from >= n THEN <<>> ELSE <<from>> \o Range(from + step, n, step)

\* rs[i:j] with 0 <= i
Slice(rs, i, j) == SubSeq(rs, i + 1, Min2(j, Len(rs)))

\* the remainder is dropped: range(0, len(rows) - size + 1, size)
MakeChunksNoRemainder(rs, w) ==
    LET size   == Max2(1, Len(rs) \div w)
        starts == Range(0, Len(rs) - size + 1, size)
    IN  [j \in DOMAIN starts |-> SubSeq(rs, starts[j] + 1, starts[j] + size)]

\* the remainder is added to the last full chunk, which gets larger than size
MakeChunksMergeLast(rs, w) ==
    LET size   == Max2(1, Len(rs) \div w)
        full   == Len(rs) \div size
    IN  [j \in 1..full |->
            SubSeq(rs, (j - 1) * size + 1, IF j = full THEN Len(rs) ELSE j * size)]

\* chunks = [rows[i:i+size] for i in range(0, len(rows), size)]
MakeChunks(rs, w) ==
    LET size   == ChunkSize(rs, w)
        starts == Range(0, Len(rs), size)
    IN  [j \in DOMAIN starts |-> Slice(rs, starts[j], starts[j] + size)]

\* ------------------------------------------------- reduce_phase, find_top

\* counts[pid] = cnt: a later partial overwrites an earlier one's count
RECURSIVE MergePartialOverwrite(_, _)
MergePartialOverwrite(cs, partial) ==
    IF partial = <<>> THEN cs
    ELSE LET k == Head(partial)[1]
             v == Head(partial)[2]
             put == IF k \in DictKeys(cs)
                    THEN [i \in DOMAIN cs |-> IF cs[i][1] = k THEN <<k, v>> ELSE cs[i]]
                    ELSE Append(cs, <<k, v>>)
         IN  MergePartialOverwrite(put, Tail(partial))

\* for pid, cnt in partial.items(): counts[pid] += cnt
RECURSIVE MergePartial(_, _)
MergePartial(cs, partial) ==
    IF partial = <<>> THEN cs
    ELSE MergePartial(DictAdd(cs, Head(partial)[1], Head(partial)[2]), Tail(partial))

\* for partial in partial_counts[1:]: the first collected partial is left out
RECURSIVE ReduceAllSkipFirst(_, _)
ReduceAllSkipFirst(cs, partials) ==
    IF partials = <<>> THEN cs
    ELSE LET rest == Tail(partials)
         IN  IF rest = <<>> THEN cs
             ELSE MergePartial(ReduceAllSkipFirst(cs, <<Head(partials)>> \o Tail(rest)), Head(rest))

\* counts = defaultdict(int); for partial in partial_counts: merge it
RECURSIVE ReduceAll(_, _)
ReduceAll(cs, partials) ==
    IF partials = <<>> THEN cs
    ELSE ReduceAll(MergePartial(cs, Head(partials)), Tail(partials))

\* min() taken for max()
MaxValueMin(cs) ==
    CHOOSE m \in { cs[i][2] : i \in DOMAIN cs } :
        \A i \in DOMAIN cs : cs[i][2] >= m

\* max(counts.values()), counts not empty
MaxValue(cs) ==
    CHOOSE m \in { cs[i][2] : i \in DOMAIN cs } :
        \A i \in DOMAIN cs : cs[i][2] <= m

\* ties broken: only the first key holding the maximum is returned
RECURSIVE TopsOfFirstOnly(_, _)
TopsOfFirstOnly(cs, m) ==
    IF cs = <<>> THEN <<>>
    ELSE IF Head(cs)[2] = m THEN <<Head(cs)[1]>> ELSE TopsOfFirstOnly(Tail(cs), m)

\* [pid for pid, cnt in counts.items() if cnt == max_count]
RECURSIVE TopsOf(_, _)
TopsOf(cs, m) ==
    IF cs = <<>> THEN <<>>
    ELSE (IF Head(cs)[2] = m THEN <<Head(cs)[1]>> ELSE <<>>) \o TopsOf(Tail(cs), m)

\* ------------------------------------------------------------------ state

VARIABLES
    rows,           \* the file's rows after the header (map_phase's rows)
    max_workers,    \* map_phase's max_workers
    pc,             \* where the main thread is in run
    chunks,         \* map_phase's chunks
    futures,        \* one entry per submitted chunk task: its state and locals
    collected,      \* the futures as_completed has yielded so far
    partial_counts, \* self.partial_counts
    flights,        \* self.flights
    routes,         \* self.routes
    counts,         \* self.counts
    result,         \* what find_top returned, <<>> before
    error,          \* the exception that left run, "none" if none
    exported,       \* export_summary has written the summary
    earlier_counts  \* the counts each earlier reduce_phase on this analyzer
                    \* had left, noted by the caller who calls map_phase or
                    \* reduce_phase again

vars == <<rows, max_workers, pc, chunks, futures, collected, partial_counts,
          flights, routes, counts, result, error, exported, earlier_counts>>

EmptyMap == [k \in {} |-> <<>>]

\* a future just submitted: the work item waits in the pool's queue
NewFuture == [st |-> "pending", i |-> 1, at |-> "row", partial |-> <<>>]

Running(c) == futures[c].st = "running"

NumRunning == Cardinality({ c \in DOMAIN futures : Running(c) })

\* the row the task of chunk c is at
CurRow(c) == chunks[c][futures[c].i]

\* FlightAnalyzer(...) constructed, the file holding any rows within the bounds
Init ==
    /\ rows \in SeqsUpTo(RowSet, MaxRows)
    /\ max_workers \in 1..MaxWorkers
    /\ pc = "map_phase"
    /\ chunks = <<>>
    /\ futures = <<>>
    /\ collected = {}
    /\ partial_counts = <<>>
    /\ flights = EmptyMap
    /\ routes = EmptyMap
    /\ counts = <<>>
    /\ result = <<>>
    /\ error = "none"
    /\ exported = FALSE
    /\ earlier_counts = <<>>

\* ------------------------------------------------------ map_phase, main thread

\* read the rows, compute size and chunks, create the executor
Partition ==
    /\ pc = "map_phase"
    /\ chunks' = MakeChunks(rows, max_workers)
    /\ pc' = IF chunks' = <<>> THEN "as_completed" ELSE "submit"
    /\ UNCHANGED <<rows, max_workers, earlier_counts, futures, collected, partial_counts,
                   flights, routes, counts, result, error, exported>>

\* executor.submit(self._process_chunk, chunk) for the next chunk
Submit ==
    /\ pc = "submit"
    /\ Len(futures) < Len(chunks)
    /\ futures' = Append(futures, NewFuture)
    /\ pc' = IF Len(futures') = Len(chunks) THEN "as_completed" ELSE "submit"
    /\ UNCHANGED <<rows, max_workers, earlier_counts, chunks, collected, partial_counts,
                   flights, routes, counts, result, error, exported>>

\* the task's exception is swallowed: try: fut.result() except: pass
CollectSwallow(c) ==
    /\ pc = "as_completed"
    /\ c \in DOMAIN futures
    /\ c \notin collected
    /\ futures[c].st \in {"finished", "raised"}
    /\ collected' = collected \cup {c}
    /\ partial_counts' = IF futures[c].st = "finished"
                         THEN Append(partial_counts, futures[c].partial)
                         ELSE partial_counts
    /\ UNCHANGED <<rows, max_workers, earlier_counts, pc, chunks, futures, flights, routes,
                   counts, result, error, exported>>

\* as_completed yields a finished future: fut.result() returns its partial,
\* which is appended, or re-raises the task's exception inside the with block
Collect(c) ==
    /\ pc = "as_completed"
    /\ c \in DOMAIN futures
    /\ c \notin collected
    /\ futures[c].st \in {"finished", "raised"}
    /\ collected' = collected \cup {c}
    /\ IF futures[c].st = "finished"
       THEN /\ partial_counts' = Append(partial_counts, futures[c].partial)
            /\ pc' = pc
       ELSE /\ partial_counts' = partial_counts
            /\ pc' = "exit_raising"
    /\ UNCHANGED <<rows, max_workers, earlier_counts, chunks, futures, flights, routes,
                   counts, result, error, exported>>

AllTasksOver == \A c \in DOMAIN futures : futures[c].st \in {"finished", "raised"}

\* no barrier: map_phase returns without waiting for the futures
PoolExitNoWait ==
    /\ pc = "as_completed"
    /\ pc' = "reduce_phase"
    /\ UNCHANGED <<rows, max_workers, earlier_counts, chunks, futures, collected, partial_counts,
                   flights, routes, counts, result, error, exported>>

\* the loop is exhausted; the with block's exit, shutdown(wait=True), joins
\* the workers and map_phase returns
PoolExit ==
    /\ pc = "as_completed"
    /\ collected = DOMAIN chunks
    /\ AllTasksOver
    /\ pc' = "reduce_phase"
    /\ UNCHANGED <<rows, max_workers, earlier_counts, chunks, futures, collected, partial_counts,
                   flights, routes, counts, result, error, exported>>

\* the with block is left by the exception: shutdown(wait=True) still joins
\* the workers, then the exception leaves map_phase and run
PoolExitRaising ==
    /\ pc = "exit_raising"
    /\ AllTasksOver
    /\ pc' = "raised"
    /\ error' = "ChunkFailure"
    /\ UNCHANGED <<rows, max_workers, earlier_counts, chunks, futures, collected, partial_counts,
                   flights, routes, counts, result, exported>>

\* ------------------------------------------------ _process_chunk, pool workers

\* no bound on the pool: every queued work item gets a thread at once
StartTaskUnbounded(c) ==
    /\ c \in DOMAIN futures
    /\ futures[c].st = "pending"
    /\ futures' = [futures EXCEPT ![c].st = "running"]
    /\ UNCHANGED <<rows, max_workers, earlier_counts, pc, chunks, collected, partial_counts,
                   flights, routes, counts, result, error, exported>>

\* one thread of the pool is never used: max_workers - 1 tasks run at most
StartTaskOneLess(c) ==
    /\ c \in DOMAIN futures
    /\ futures[c].st = "pending"
    /\ \A b \in 1..(c - 1) : futures[b].st # "pending"
    /\ Cardinality({ b \in DOMAIN futures : futures[b].st = "running" }) < max_workers - 1
    /\ futures' = [futures EXCEPT ![c].st = "running"]
    /\ UNCHANGED <<rows, max_workers, earlier_counts, pc, chunks, collected, partial_counts,
                   flights, routes, counts, result, error, exported>>

\* a worker takes the oldest work item of the queue; max_workers threads exist
StartTask(c) ==
    /\ c \in DOMAIN futures
    /\ futures[c].st = "pending"
    /\ \A b \in 1..(c - 1) : futures[b].st # "pending"
    /\ NumRunning < max_workers
    /\ futures' = [futures EXCEPT ![c].st = "running"]
    /\ UNCHANGED <<rows, max_workers, earlier_counts, pc, chunks, collected, partial_counts,
                   flights, routes, counts, result, error, exported>>

\* the loop goes to its next row; after the chunk's last row it is exhausted
\* and return partial finishes the future (both touch the task's locals only)
RowDone(f, chunk) ==
    IF f.i < Len(chunk)
    THEN [f EXCEPT !.i = @ + 1, !.at = "row"]
    ELSE [f EXCEPT !.i = @ + 1, !.at = "row", !.st = "finished"]

\* a row that is not accepted is fatal: the task raises instead of skipping
ProcessRowStrict(c) ==
    /\ c \in DOMAIN futures
    /\ futures[c].st = "running"
    /\ futures[c].at = "row"
    /\ futures' =
         IF Len(chunks[c][futures[c].i]) >= 4
         THEN [futures EXCEPT
                 ![c].partial = CombineRow(@, chunks[c][futures[c].i]),
                 ![c].at = "flights"]
         ELSE [futures EXCEPT ![c].st = "raised"]
    /\ UNCHANGED <<rows, max_workers, earlier_counts, pc, chunks, collected, partial_counts,
                   flights, routes, counts, result, error, exported>>

\* one row of the loop up to the combiner step: a short row, or one map_row
\* fails on, is skipped; else partial[pid] += one
ProcessRow(c) ==
    /\ c \in DOMAIN futures
    /\ Running(c)
    /\ futures[c].at = "row"
    /\ futures' =
         IF Accepted(CurRow(c))
         THEN [futures EXCEPT
                 ![c].partial = CombineRow(@, CurRow(c)),
                 ![c].at = "flights"]
         ELSE [futures EXCEPT ![c] = RowDone(@, chunks[c])]
    /\ UNCHANGED <<rows, max_workers, earlier_counts, pc, chunks, collected, partial_counts,
                   flights, routes, counts, result, error, exported>>

\* self.flights[pid].append(flight_no)
AppendFlight(c) ==
    /\ c \in DOMAIN futures
    /\ Running(c)
    /\ futures[c].at = "flights"
    /\ flights' = ListAppend(flights, map_row(CurRow(c)).pid, map_row(CurRow(c)).flight_no)
    /\ futures' = [futures EXCEPT ![c].at = "routes"]
    /\ UNCHANGED <<rows, max_workers, earlier_counts, pc, chunks, collected, partial_counts,
                   routes, counts, result, error, exported>>

\* self.routes[pid].append(route), which ends the row
AppendRoute(c) ==
    /\ c \in DOMAIN futures
    /\ Running(c)
    /\ futures[c].at = "routes"
    /\ routes' = ListAppend(routes, map_row(CurRow(c)).pid, map_row(CurRow(c)).route)
    /\ futures' = [futures EXCEPT ![c] = RowDone(@, chunks[c])]
    /\ UNCHANGED <<rows, max_workers, earlier_counts, pc, chunks, collected, partial_counts,
                   flights, counts, result, error, exported>>

\* an exception nothing in _process_chunk catches: the frame and its locals
\* are gone and the future holds the exception
RaiseInChunk(c) ==
    /\ c \in DOMAIN futures
    /\ Running(c)
    /\ futures' = [futures EXCEPT ![c] = [NewFuture EXCEPT !.st = "raised"]]
    /\ UNCHANGED <<rows, max_workers, earlier_counts, pc, chunks, collected, partial_counts,
                   flights, routes, counts, result, error, exported>>

\* ------------------------------------------------- the rest of run

ReducePhase ==
    /\ pc = "reduce_phase"
    /\ counts' = ReduceAll(<<>>, partial_counts)
    /\ pc' = "find_top"
    /\ UNCHANGED <<rows, max_workers, earlier_counts, chunks, futures, collected, partial_counts,
                   flights, routes, result, error, exported>>

\* max() of an empty sequence raises ValueError, which leaves run
FindTop ==
    /\ pc = "find_top"
    /\ IF counts = <<>>
       THEN /\ error' = "ValueError"
            /\ pc' = "raised"
            /\ result' = result
       ELSE /\ result' = <<MaxValue(counts), TopsOf(counts, MaxValue(counts))>>
            /\ pc' = "export_summary"
            /\ error' = error
    /\ UNCHANGED <<rows, max_workers, earlier_counts, chunks, futures, collected, partial_counts,
                   flights, routes, counts, exported>>

\* export_summary(max_count, tops); the plots that follow read, never write
ExportSummary ==
    /\ pc = "export_summary"
    /\ exported' = TRUE
    /\ pc' = "returned"
    /\ UNCHANGED <<rows, max_workers, earlier_counts, chunks, futures, collected, partial_counts,
                   flights, routes, counts, result, error>>

\* a chunk holds at least one row, so there are at most MaxRows chunks
ChunkIds == 1..MaxRows

Next ==
    \/ Partition
    \/ Submit
    \/ \E c \in ChunkIds : Collect(c)
    \/ PoolExit
    \/ PoolExitRaising
    \/ \E c \in ChunkIds : StartTask(c)
    \/ \E c \in ChunkIds : ProcessRow(c)
    \/ \E c \in ChunkIds : AppendFlight(c)
    \/ \E c \in ChunkIds : AppendRoute(c)
    \/ \E c \in ChunkIds : RaiseInChunk(c)
    \/ ReducePhase
    \/ FindTop
    \/ ExportSummary

Spec == Init /\ [][Next]_vars

\* only the partitioning of map_phase, over longer lists and more workers
InitPartition ==
    /\ rows \in SeqsUpTo(RowSet, MaxPartRows)
    /\ max_workers \in 1..MaxPartWorkers
    /\ pc = "map_phase"
    /\ chunks = <<>>
    /\ futures = <<>>
    /\ collected = {}
    /\ partial_counts = <<>>
    /\ flights = EmptyMap
    /\ routes = EmptyMap
    /\ counts = <<>>
    /\ result = <<>>
    /\ error = "none"
    /\ exported = FALSE
    /\ earlier_counts = <<>>

SpecPartition == InitPartition /\ [][Partition]_vars

\* ------------------------------------------------- what the claims speak of

\* a dict read as a mapping, its order forgotten
AsMap(d) == [k \in DictKeys(d) |-> DictGet(d, k)]

\* d.get(k, 0)
CountOf(d, k) == IF k \in DictKeys(d) THEN DictGet(d, k) ELSE 0

\* len(d[k]) of flights or routes, 0 for a key never appended to
LenOf(d, k) == IF k \in DOMAIN d THEN Len(d[k]) ELSE 0

RECURSIVE SumOfPartials(_, _)
SumOfPartials(partials, k) ==
    IF partials = <<>> THEN 0
    ELSE CountOf(Head(partials), k) + SumOfPartials(Tail(partials), k)

RECURSIVE Flatten(_)
Flatten(cs) == IF cs = <<>> THEN <<>> ELSE Head(cs) \o Flatten(Tail(cs))

\* the accepted rows of the input whose passenger key is k
RowsOf(k) == { n \in DOMAIN rows : Accepted(rows[n]) /\ map_row(rows[n]).pid = k }

AllKeys == { map_row(r).pid : r \in { x \in RowSet : Accepted(x) } }

MapPhaseReturned == pc \in {"reduce_phase", "find_top", "export_summary", "returned"}
                    \/ error = "ValueError"

ReduceDone == pc \in {"find_top", "export_summary", "returned"} \/ error = "ValueError"

\* C1: once map_phase and reduce_phase have completed, whatever the
\* interleaving of the chunk tasks, every passenger key's count equals the
\* sum of its partial counts and the length of its flights list, and that
\* length is the number of accepted input rows of the key: no append is lost.
C1_ThreeWayEquality ==
    ReduceDone =>
        \A k \in AllKeys \cup DictKeys(counts) \cup DOMAIN flights :
            /\ CountOf(counts, k) = SumOfPartials(partial_counts, k)
            /\ CountOf(counts, k) = LenOf(flights, k)
            /\ LenOf(flights, k) = Cardinality(RowsOf(k))
            /\ LenOf(routes, k) = Cardinality(RowsOf(k))

\* two tasks appended for the same key and the later chunk's append came first
C1_Witness ==
    /\ pc = "returned"
    /\ Len(chunks) >= 2
    /\ P1 \in DOMAIN flights
    /\ flights[P1] = <<FL2, FL1>>
    /\ CountOf(counts, P1) = 2

\* C2: for every worker count and every record list, the empty one and the
\* ones shorter than the worker count included, the chunks are contiguous,
\* do not overlap, and concatenated in chunk order give back the list.
C2_PartitionComplete ==
    pc # "map_phase" =>
        /\ Flatten(chunks) = rows
        /\ \A j \in DOMAIN chunks :
             chunks[j] = SubSeq(rows, Len(Flatten(SubSeq(chunks, 1, j - 1))) + 1,
                                      Len(Flatten(SubSeq(chunks, 1, j))))

\* several chunks of more than one row and a shorter last chunk
C2_Witness ==
    /\ pc # "map_phase"
    /\ Len(chunks) >= 3
    /\ Len(chunks[1]) >= 2
    /\ Len(chunks[Len(chunks)]) < Len(chunks[1])
    /\ Flatten(chunks) = rows

\* C3: for a fixed record list the counts after map_phase and reduce_phase
\* are, as a mapping, the ones of the whole list processed as one chunk,
\* whatever the worker count and so whatever the number of chunks.
C3_PartitionInvariant ==
    ReduceDone => AsMap(counts) = AsMap(ProcessChunkPartial(rows))

\* three chunks, and a key whose count is spread over two of them
C3_Witness ==
    /\ pc = "returned"
    /\ Len(chunks) = 3
    /\ CountOf(counts, P1) = 2
    /\ CountOf(counts, P2) = 1
    /\ \A n \in DOMAIN partial_counts : CountOf(partial_counts[n], P1) <= 1

\* C4: whatever order the chunk tasks complete in, and so whatever order
\* the partial counts stand in partial_counts, the counts after
\* reduce_phase are the mapping the partials merged in chunk order give.
C4_OrderIndependent ==
    ReduceDone =>
        AsMap(counts) =
            AsMap(ReduceAll(<<>>, [c \in DOMAIN chunks |-> ProcessChunkPartial(chunks[c])]))

\* the partials were collected in another order than the chunks', and the
\* reduced dict even lists its keys in another order
C4_Witness ==
    /\ pc = "returned"
    /\ Len(partial_counts) = 3
    /\ partial_counts # [c \in DOMAIN chunks |-> futures[c].partial]
    /\ counts # ReduceAll(<<>>, [c \in DOMAIN chunks |-> futures[c].partial])
    /\ CountOf(counts, P1) = 2

\* reduce_phase and find_top on the partials of a run whose map_phase has
\* returned: any one or two partial counts over three passengers
P3 == <<"P", "3">>
TopKeys == {P1, P2, P3}

IsDict(d) == \A i, j \in DOMAIN d : d[i][1] = d[j][1] => i = j

Dicts == { d \in SeqsUpTo(TopKeys \X (1..MaxCount), Cardinality(TopKeys)) : IsDict(d) }

InitFindTop ==
    /\ rows = <<>>
    /\ max_workers = 1
    /\ pc = "reduce_phase"
    /\ chunks = <<>>
    /\ futures = <<>>
    /\ collected = {}
    /\ partial_counts \in { <<d>> : d \in Dicts }
    /\ flights = EmptyMap
    /\ routes = EmptyMap
    /\ counts = <<>>
    /\ result = <<>>
    /\ error = "none"
    /\ exported = FALSE
    /\ earlier_counts = <<>>

SpecFindTop == InitFindTop /\ [][ReducePhase \/ FindTop \/ ExportSummary]_vars

FindTopReturned == pc \in {"export_summary", "returned"}

SeqToSet(q) == { q[i] : i \in DOMAIN q }

\* C5: for non-empty counts find_top returns the largest count and a list
\* holding exactly the keys with that count, each once, whatever order the
\* dict lists its keys in; {A: 3, B: 3, C: 1} gives 3 and {A, B}.
C5_TiePreserved ==
    FindTopReturned =>
        /\ counts # <<>>
        /\ \E k \in DictKeys(counts) : DictGet(counts, k) = result[1]
        /\ \A k \in DictKeys(counts) : DictGet(counts, k) <= result[1]
        /\ SeqToSet(result[2]) = { k \in DictKeys(counts) : DictGet(counts, k) = result[1] }
        /\ Len(result[2]) = Cardinality(SeqToSet(result[2]))

\* the counts of the example, listed with the smallest count first
C5_Witness ==
    /\ FindTopReturned
    /\ counts = << <<P3, 1>>, <<P2, 3>>, <<P1, 3>> >>
    /\ result[1] = 3
    /\ SeqToSet(result[2]) = {P1, P2}

RunOver == pc \in {"returned", "raised"}

\* C6: when counts is empty as find_top runs, the run ends in an explicit
\* EmptyAggregation error, returns no result and exports no summary.
C6_EmptyAggregationError ==
    (RunOver /\ ReduceDone /\ counts = <<>>) =>
        /\ error = "EmptyAggregation"
        /\ result = <<>>
        /\ ~exported

\* C7: reduce_phase starts only when every chunk was submitted, every task
\* has finished and its partial stands in partial_counts, so no task runs or
\* appends once the reducer has begun; find_top starts only when counts
\* holds the merge of all of them.
C7_Barrier ==
    /\ MapPhaseReturned =>
         /\ Len(futures) = Len(chunks)
         /\ \A c \in DOMAIN futures : futures[c].st = "finished"
         /\ collected = DOMAIN chunks
         /\ Len(partial_counts) = Len(chunks)
         /\ \A c \in DOMAIN chunks :
              \E n \in DOMAIN partial_counts :
                  partial_counts[n] = ProcessChunkPartial(chunks[c])
    /\ ReduceDone =>
         \A k \in AllKeys : CountOf(counts, k) = SumOfPartials(partial_counts, k)

\* the reducer is about to start after three tasks shared a pool of two
C7_Witness ==
    /\ pc = "reduce_phase"
    /\ Len(chunks) = 3
    /\ max_workers = 2
    /\ Len(partial_counts) = 3

SomeRaised == \E c \in DOMAIN futures : futures[c].st = "raised"

\* C8: when a chunk task raises, reduce_phase and find_top never run, no
\* counts, result or summary come of the incomplete partials, and the run
\* can only end with the exception having left map_phase and run.
C8_ChunkFailureFatal ==
    SomeRaised =>
        /\ ~MapPhaseReturned
        /\ counts = <<>>
        /\ result = <<>>
        /\ ~exported
        /\ (~ENABLED Next) => (pc = "raised" /\ error = "ChunkFailure")

\* the run is aborted though partials of other chunks had been collected
C8_Witness ==
    /\ pc = "raised"
    /\ error = "ChunkFailure"
    /\ SomeRaised
    /\ Len(partial_counts) >= 1
    /\ Len(partial_counts) < Len(chunks)

\* the flight number and the route of one accepted row of key k
PairsOf(k) == { <<map_row(rows[n]).flight_no, map_row(rows[n]).route>> : n \in RowsOf(k) }

\* C9: after the pipeline completes, whatever the interleaving, flights[k]
\* and routes[k] have the same length and at every index hold the flight
\* number and the route of one and the same input record.
C9_IndexAligned ==
    pc = "returned" =>
        \A k \in DOMAIN flights :
            /\ k \in DOMAIN routes
            /\ Len(flights[k]) = Len(routes[k])
            /\ \A i \in DOMAIN flights[k] : <<flights[k][i], routes[k][i]>> \in PairsOf(k)

\* C10: a task meeting a row that is not accepted leaves its partial,
\* flights and routes as they are, stays alive and goes on with the next
\* row; the partial it returns is the one of the chunk's accepted rows.
C10_MalformedSkipped ==
    /\ [][\A c \in ChunkIds :
            (ProcessRow(c) /\ ~Accepted(CurRow(c))) =>
                /\ futures'[c].partial = futures[c].partial
                /\ futures'[c].i = futures[c].i + 1
                /\ futures'[c].st \in {"running", "finished"}
                /\ flights' = flights /\ routes' = routes
                /\ pc' = pc /\ error' = error]_vars
    /\ [](\A c \in DOMAIN futures :
            futures[c].st = "finished" =>
                futures[c].partial = ProcessChunkPartial(SelectSeq(chunks[c], Accepted)))

\* a run that returned after one task skipped a short row and then counted
\* the row after it
C10_Witness ==
    /\ pc = "returned"
    /\ Len(chunks) = 1
    /\ Len(chunks[1]) >= 2
    /\ ~Accepted(chunks[1][1])
    /\ Accepted(chunks[1][2])
    /\ futures[1].st = "finished"
    /\ futures[1].partial # <<>>
    /\ counts = futures[1].partial

\* ------------------------------------------------- one chunk, longer lists

\* a padded passenger, a second passenger and a short row, in one chunk
CombinerRowSet ==
    { <<FL2, P1pad, LAX, JFK>>,
      <<FL3, P2, JFK, ORD>>,
      <<FL4, P2, ORD>> }

InitCombiner ==
    /\ rows \in SeqsUpTo(CombinerRowSet, MaxChunkRows)
    /\ max_workers = 1
    /\ pc = "map_phase"
    /\ chunks = <<>>
    /\ futures = <<>>
    /\ collected = {}
    /\ partial_counts = <<>>
    /\ flights = EmptyMap
    /\ routes = EmptyMap
    /\ counts = <<>>
    /\ result = <<>>
    /\ error = "none"
    /\ exported = FALSE
    /\ earlier_counts = <<>>

SpecCombiner == InitCombiner /\ [][Next]_vars

RECURSIVE SumOfValues(_)
SumOfValues(d) == IF d = <<>> THEN 0 ELSE Head(d)[2] + SumOfValues(Tail(d))

\* the positions of a chunk's accepted rows, and of those of passenger k
AcceptedIn(chunk) == { n \in DOMAIN chunk : Accepted(chunk[n]) }
AcceptedOf(chunk, k) == { n \in AcceptedIn(chunk) : strip(chunk[n][2]) = k }

\* C11: the values of the partial a chunk task returns sum to the number of
\* the chunk's accepted rows, and the partial gives every passenger the
\* number of accepted rows whose trimmed passenger id it is; it has no other
\* key.  Five rows of one passenger and two of another among short rows give
\* 5 and 2.
C11_CombinerGuarantee ==
    \A c \in DOMAIN futures :
        futures[c].st = "finished" =>
            /\ SumOfValues(futures[c].partial) = Cardinality(AcceptedIn(chunks[c]))
            /\ \A k \in AllKeys \cup DictKeys(futures[c].partial) :
                 CountOf(futures[c].partial, k) = Cardinality(AcceptedOf(chunks[c], k))
            /\ \A i, j \in DOMAIN futures[c].partial :
                 futures[c].partial[i][1] = futures[c].partial[j][1] => i = j

\* the spec's example: 5 and 2 rows of two passengers and a short row
C11_Witness ==
    /\ Len(futures) = 1
    /\ futures[1].st = "finished"
    /\ Len(chunks[1]) = 8
    /\ \E n \in DOMAIN chunks[1] : ~Accepted(chunks[1][n])
    /\ AsMap(futures[1].partial) = [k \in {P1, P2} |-> IF k = P1 THEN 5 ELSE 2]

FewerRowsThanWorkers == pc # "map_phase" /\ 0 < Len(rows) /\ Len(rows) < max_workers

\* C12 as claimed: a non-empty list of fewer records than workers is put
\* into one single chunk.
C12_OneChunk == FewerRowsThanWorkers => Len(chunks) = 1

\* C12 as amended: a non-empty list of fewer records than workers gets the
\* chunk size 1, so every record is a chunk of its own; the records are in
\* one single chunk only when there is one record.
C12_OneRowPerChunk ==
    FewerRowsThanWorkers =>
        /\ Len(chunks) = Len(rows)
        /\ \A j \in DOMAIN chunks : chunks[j] = <<rows[j]>>
        /\ (Len(chunks) = 1 <=> Len(rows) = 1)

\* three records and four workers: three chunks
C12_Witness ==
    /\ FewerRowsThanWorkers
    /\ Len(rows) = 3
    /\ max_workers = 4
    /\ Len(chunks) = 3

\* ------------------------------------------------- the end-to-end scenario

\* ("FL1","P1","JFK","LAX"), ("FL2","P1","LAX","JFK"), ("FL3","P2","JFK","ORD")
ScenarioRows ==
    << <<FL1, P1, JFK, LAX>>,
       <<FL2, P1, LAX, JFK>>,
       <<FL3, P2, JFK, <<"O">>>> >>

InitScenario ==
    /\ rows = ScenarioRows
    /\ max_workers = 2
    /\ pc = "map_phase"
    /\ chunks = <<>>
    /\ futures = <<>>
    /\ collected = {}
    /\ partial_counts = <<>>
    /\ flights = EmptyMap
    /\ routes = EmptyMap
    /\ counts = <<>>
    /\ result = <<>>
    /\ error = "none"
    /\ exported = FALSE
    /\ earlier_counts = <<>>

SpecScenario == InitScenario /\ [][Next]_vars

ScenarioCounts ==
    /\ AsMap(counts) = [k \in {P1, P2} |-> IF k = P1 THEN 2 ELSE 1]
    /\ result = <<2, <<P1>>>>

\* C13 as claimed: every interleaving of the scenario ends with the counts
\* P1: 2, P2: 1, the top result (2, {P1}) and flights[P1] = [FL1, FL2].
C13_ScenarioInputOrder ==
    pc = "returned" =>
        /\ ScenarioCounts
        /\ P1 \in DOMAIN flights
        /\ flights[P1] = <<FL1, FL2>>

\* C13 as amended: every interleaving of the scenario ends with the counts
\* P1: 2, P2: 1, the top result (2, {P1}) and flights[P1] holding FL1 and
\* FL2 once each, in either order: the two rows lie in different chunks.
C13_ScenarioEitherOrder ==
    pc = "returned" =>
        /\ ScenarioCounts
        /\ DOMAIN flights = {P1, P2}
        /\ flights[P1] \in { <<FL1, FL2>>, <<FL2, FL1>> }
        /\ flights[P2] = <<FL3>>

\* the run returned with the second row's flight appended first
C13_Witness ==
    /\ pc = "returned"
    /\ rows = ScenarioRows
    /\ Len(chunks) = 3
    /\ flights[P1] = <<FL2, FL1>>
    /\ ScenarioCounts

\* the rows of a chunk that its task has gone past
RowsPassed(c) ==
    IF futures[c].st \in {"pending", "raised"} THEN 0 ELSE futures[c].i - 1

\* C14: every chunk gets one future and one only, a task once started is
\* never queued or started again and goes through its chunk once, each
\* collected future adds one partial, so that map_phase returns with one
\* partial per chunk, and never do more than max_workers tasks run at a
\* time, also with more chunks than workers.
C14_BoundedPool ==
    /\ [](/\ NumRunning <= max_workers
          /\ Len(futures) <= Len(chunks)
          /\ collected \subseteq DOMAIN futures
          /\ Len(partial_counts) =
                Cardinality({ c \in collected : futures[c].st = "finished" })
          /\ \A c \in DOMAIN futures : RowsPassed(c) <= Len(chunks[c])
          /\ \A k \in AllKeys : LenOf(flights, k) <= Cardinality(RowsOf(k))
          /\ MapPhaseReturned =>
                /\ Len(futures) = Len(chunks)
                /\ Len(partial_counts) = Len(chunks)
                /\ \A c \in DOMAIN chunks : RowsPassed(c) = Len(chunks[c]))
    /\ [][\A c \in DOMAIN futures :
            /\ futures[c].st # "pending" => futures'[c].st # "pending"
            /\ futures[c].st \in {"finished", "raised"} => futures'[c] = futures[c]
            /\ futures[c].st = "running" /\ futures'[c].st = "running"
                 => futures'[c].i >= futures[c].i]_vars

\* three chunks for two workers: two tasks run and the third waits
C14_Witness ==
    /\ Len(chunks) = 3
    /\ max_workers = 2
    /\ NumRunning = 2
    /\ Len(futures) = 3
    /\ futures[3].st = "pending"

\* ------------------------------------------------- the pipeline, again

\* map_phase is called again on the same analyzer after reduce_phase: its
\* locals are new, while partial_counts, flights, routes and counts are the
\* attributes __init__ set once
MapPhaseAgain ==
    /\ pc = "find_top"
    /\ Len(earlier_counts) < MaxRuns - 1
    /\ earlier_counts' = Append(earlier_counts, counts)
    /\ pc' = "map_phase"
    /\ chunks' = <<>>
    /\ futures' = <<>>
    /\ collected' = {}
    /\ UNCHANGED <<rows, max_workers, partial_counts, flights, routes, counts,
                   result, error, exported>>

InitRerun ==
    /\ rows \in SeqsUpTo(RowSet, MaxRerunRows)
    /\ max_workers \in 1..MaxWorkers
    /\ pc = "map_phase"
    /\ chunks = <<>>
    /\ futures = <<>>
    /\ collected = {}
    /\ partial_counts = <<>>
    /\ flights = EmptyMap
    /\ routes = EmptyMap
    /\ counts = <<>>
    /\ result = <<>>
    /\ error = "none"
    /\ exported = FALSE
    /\ earlier_counts = <<>>

SpecRerun == InitRerun /\ [][Next \/ MapPhaseAgain]_vars

ThreeWay ==
    \A k \in AllKeys \cup DictKeys(counts) \cup DOMAIN flights :
        /\ CountOf(counts, k) = SumOfPartials(partial_counts, k)
        /\ CountOf(counts, k) = LenOf(flights, k)

\* C15: a second execution of map_phase and reduce_phase on the same
\* analyzer and input leaves the counts and the maximal count of the first,
\* the partials of the first not being merged again, and the three-way
\* equality holds after it.
C15_SecondRunSame ==
    (ReduceDone /\ earlier_counts # <<>>) =>
        /\ AsMap(counts) = AsMap(earlier_counts[1])
        /\ (earlier_counts[1] # <<>> =>
              counts # <<>> /\ MaxValue(counts) = MaxValue(earlier_counts[1]))
        /\ ThreeWay

\* ------------------------------------------------- fair scheduling, no failure

\* the steps of a run in which no chunk task raises
NextNoFailure ==
    \/ Partition
    \/ Submit
    \/ \E c \in ChunkIds : Collect(c)
    \/ PoolExit
    \/ \E c \in ChunkIds : StartTask(c)
    \/ \E c \in ChunkIds : ProcessRow(c)
    \/ \E c \in ChunkIds : AppendFlight(c)
    \/ \E c \in ChunkIds : AppendRoute(c)
    \/ ReducePhase
    \/ FindTop
    \/ ExportSummary

\* the interpreter does not stop while some thread can take a step: a
\* thread that is ready to run is scheduled (this asks less than fairness
\* to every single thread, and is enough)
Fairness == WF_vars(NextNoFailure)

SpecFair == Init /\ [][NextNoFailure]_vars /\ Fairness

\* C16: with fair scheduling and no task raising, map_phase returns in the
\* end, and once it has returned every chunk has been submitted, every task
\* is finished and partial_counts holds one partial per chunk.
C16_MapPhaseTerminates ==
    /\ <>MapPhaseReturned
    /\ [](MapPhaseReturned =>
            /\ Len(futures) = Len(chunks)
            /\ \A c \in DOMAIN futures : futures[c].st = "finished"
            /\ Len(partial_counts) = Len(chunks))

\* map_phase has returned after three tasks went through a pool of two
C16_Witness ==
    /\ MapPhaseReturned
    /\ Len(chunks) = 3
    /\ max_workers = 2
    /\ \A c \in DOMAIN futures : futures[c].st = "finished"
    /\ Len(partial_counts) = 3
    /\ error = "none"

\* ------------------------------------------------- records told apart

Digits == <<"1", "2", "3", "4", "5", "6">>

RoutePairs ==
    << <<JFK, LAX>>, <<LAX, JFK>>, <<JFK, ORD>>,
       <<ORD, JFK>>, <<LAX, ORD>>, <<ORD, LAX>> >>

\* the rows the n-th record may be: its flight number and route are its
\* own, its passenger is one of two, the first one padded
OrderRowsAt(n) ==
    { << <<"F", Digits[n]>>, p, RoutePairs[n][1], RoutePairs[n][2] >> : p \in {P1pad, P2} }

OrderLists ==
    UNION { { q \in [1..n -> UNION { OrderRowsAt(m) : m \in 1..n }] :
                \A m \in 1..n : q[m] \in OrderRowsAt(m) } : n \in 0..MaxOrderRows }

\* the worker counts that leave two records in one chunk next to another
\* chunk, and a single chunk
OrderWorkerCounts == {1, 2}

InitOrder ==
    /\ rows \in OrderLists
    /\ max_workers \in OrderWorkerCounts
    /\ pc = "map_phase"
    /\ chunks = <<>>
    /\ futures = <<>>
    /\ collected = {}
    /\ partial_counts = <<>>
    /\ flights = EmptyMap
    /\ routes = EmptyMap
    /\ counts = <<>>
    /\ result = <<>>
    /\ error = "none"
    /\ exported = FALSE
    /\ earlier_counts = <<>>

SpecOrder == InitOrder /\ [][Next]_vars

\* x stands in the list of key k, and before y if y stands there too
InOrder(d, k, x, y) ==
    k \in DOMAIN d /\
    \A j \in DOMAIN d[k] :
        d[k][j] = y => \E i \in 1..(j - 1) : d[k][i] = x

\* C17: in every state of every interleaving, when two accepted records of
\* one passenger lie in the same chunk and the later one's flight number
\* (route) stands in flights[k] (routes[k]), the earlier one's stands there
\* before it; entries of different chunks may stand in either order.
C17_ChunkOrderKept ==
    \A c \in DOMAIN chunks : \A a, b \in DOMAIN chunks[c] :
        (a < b /\ Accepted(chunks[c][a]) /\ Accepted(chunks[c][b])
           /\ map_row(chunks[c][a]).pid = map_row(chunks[c][b]).pid) =>
            LET k == map_row(chunks[c][a]).pid
            IN  /\ (k \in DOMAIN flights =>
                      InOrder(flights, k, map_row(chunks[c][a]).flight_no,
                                          map_row(chunks[c][b]).flight_no))
                /\ (k \in DOMAIN routes =>
                      InOrder(routes, k, map_row(chunks[c][a]).route,
                                         map_row(chunks[c][b]).route))

\* two chunks of two records of one passenger, their appends interleaved:
\* the second chunk's first entry stands between the first chunk's two
C17_Witness ==
    /\ pc = "returned"
    /\ Len(chunks) = 2
    /\ Len(chunks[1]) = 2
    /\ P1 \in DOMAIN flights
    /\ flights[P1] = << <<"F", "1">>, <<"F", "3">>, <<"F", "2">>, <<"F", "4">> >>

\* max(1, n div W), written out
SizeOf(n, w) == IF n \div w >= 1 THEN n \div w ELSE 1

\* C18: with size = max(1, n div W) no chunk is empty, every chunk but the
\* last holds size records, the last holds 1 to size records, and the
\* boundaries are fixed by n and W alone: chunk j is the records
\* (j-1)*size+1 .. min(j*size, n), and there are ceil(n / size) chunks.
C18_ChunkShape ==
    pc # "map_phase" =>
        LET n    == Len(rows)
            size == SizeOf(n, max_workers)
            K    == Len(chunks)
        IN  /\ K = (n + size - 1) \div size
            /\ \A j \in 1..K :
                 /\ Len(chunks[j]) >= 1
                 /\ j < K => Len(chunks[j]) = size
                 /\ Len(chunks[j]) <= size
                 /\ \A i \in 1..Len(chunks[j]) : chunks[j][i] = rows[(j - 1) * size + i]

\* more chunks than workers, full chunks of two records and a last chunk of
\* one: five records and two workers
C18_Witness ==
    /\ pc # "map_phase"
    /\ Len(rows) >= 5
    /\ max_workers >= 2
    /\ Len(chunks) > max_workers
    /\ Len(chunks[1]) = 2
    /\ Len(chunks[Len(chunks)]) = 1

\* ------------------------------------------------- reduce_phase, again

\* counts is not set anew: the partials are added on top of what it holds
ReducePhaseAgainNoReset ==
    /\ pc = "find_top"
    /\ Len(earlier_counts) < MaxRuns - 1
    /\ earlier_counts' = Append(earlier_counts, counts)
    /\ counts' = ReduceAll(counts, partial_counts)
    /\ UNCHANGED <<rows, max_workers, pc, chunks, futures, collected,
                   partial_counts, flights, routes, result, error, exported>>

\* reduce_phase is called again with no map_phase in between: counts is set
\* to a new defaultdict and every partial merged into it
ReducePhaseAgain ==
    /\ pc = "find_top"
    /\ Len(earlier_counts) < MaxRuns - 1
    /\ earlier_counts' = Append(earlier_counts, counts)
    /\ counts' = ReduceAll(<<>>, partial_counts)
    /\ UNCHANGED <<rows, max_workers, pc, chunks, futures, collected,
                   partial_counts, flights, routes, result, error, exported>>

SpecReduceAgain == Init /\ [][Next \/ ReducePhaseAgain]_vars

\* C19: reduce_phase called again with no map_phase in between leaves the
\* counts of the call before it, key order included, and the three-way
\* equality, and changes neither partial_counts nor flights nor routes.
C19_ReduceIdempotent ==
    /\ [](earlier_counts # <<>> =>
            /\ \A n \in DOMAIN earlier_counts : counts = earlier_counts[n]
            /\ ThreeWay)
    /\ [][ReducePhaseAgain =>
            /\ partial_counts' = partial_counts
            /\ flights' = flights
            /\ routes' = routes]_vars

\* reduce_phase ran twice over the partials of three chunks
C19_Witness ==
    /\ earlier_counts # <<>>
    /\ pc = "find_top"
    /\ Len(partial_counts) = 3
    /\ CountOf(counts, P1) = 2
    /\ CountOf(earlier_counts[1], P1) = 2

=============================================================================
